---- MODULE Spec2Model ----
(***************************************************************************)
(* A model of het_paxos_ref's identity, signing and ordering core:         *)
(*   src/src/lib.rs     Hash256 / Ballot ordering, ConsensusMessage guard  *)
(*   src/src/crypto.rs  PrivateKey / PublicKey construction, sign, verify  *)
(*                                                                         *)
(* The library is a set of pure functions and immutable objects, so each   *)
(* specification below is a small machine whose actions apply the          *)
(* functions to inputs drawn from bounded sets and record the results.     *)
(***************************************************************************)
EXTENDS Integers, Sequences, FiniteSets, TLC

VARIABLES
    op, args, ret,          \* the last ordering call, its arguments, its result
    ballots, todo, best,    \* a ballot set and two participants folding it
    status,                 \* "idle", "ok", or "panicked" (construction failed fatally)
    pub,                    \* two Option<PublicKey> slots
    priv,                   \* Option<PrivateKey>
    sig,                    \* Option<Vec<u8>>: the signature bytes at hand
    verdict,                \* Option of the last verify_bytes call and its results
    compared                \* Option of the last ==, cmp and hash of the two slots

ordVars == <<op, args, ret>>
maxVars == <<ballots, todo, best>>
cryptoVars == <<status, pub, priv, sig, verdict, compared>>
vars == <<op, args, ret, ballots, todo, best,
          status, pub, priv, sig, verdict, compared>>

(***************************************************************************)
(* Bounds                                                                  *)
(***************************************************************************)
\* how many sample 64-bit words a Hash256 word is drawn from
NumWords == 2
\* timestamps: seconds in -MaxSeconds..MaxSeconds, nanos in -MaxNanos..MaxNanos
MaxSeconds == 1
MaxNanos == 1
\* the largest ballot set the two participants fold
MaxBallots == 2
\* PEM texts hold at most MaxPemItems sections
MaxPemItems == 2
\* messages are byte sequences of at most MaxMsgLen bytes
MaxMsgLen == 1
\* ECDSA signing is randomized: a signature carries one of MaxNonce nonces
MaxNonce == 2

(***************************************************************************)
(* Option<T>: None is <<>>, Some(v) is <<v>>                               *)
(***************************************************************************)
None == <<>>
Some(v) == <<v>>
IsSome(o) == Len(o) = 1

(***************************************************************************)
(* std::cmp::Ordering and the std comparisons the code relies on           *)
(***************************************************************************)
\* Ordering::then: the first non-Equal result of a lexicographic chain
Then(o1, o2) == IF o1 # "Equal" THEN o1 ELSE o2

\* i64 / i32 comparison
CmpInt(a, b) == IF a < b THEN "Less" ELSE IF a > b THEN "Greater" ELSE "Equal"

\* A u64 word w stands for the number w.hi * 2^63 + w.lo (hi is bit 63, lo the
\* low 63 bits), so that the top half of the range is present without 2^64.
\* the same bits compared as two's complement i64 (bit 63 set is negative),
\* as the comment on Hash256's Ord has it
CmpI64Bits(a, b) ==
    IF a.hi # b.hi THEN (IF a.hi = 1 THEN "Less" ELSE "Greater")
    ELSE CmpInt(a.lo, b.lo)

CmpU64(a, b) == Then(CmpInt(a.hi, b.hi), CmpInt(a.lo, b.lo))

(***************************************************************************)
(* grpc::Hash256 and its Ord                                               *)
(***************************************************************************)
U64Words == {w \in [hi : 0..1, lo : 0..NumWords] : 2 * w.lo + w.hi < NumWords}

Hash256s == [bytes0_through7 : U64Words, bytes8_through15 : U64Words,
             bytes16_through23 : U64Words, bytes24_through31 : U64Words]

\* (w0, w1, w2, w3).cmp(&(o0, o1, o2, o3)): tuple comparison is lexicographic
Hash256Cmp(a, b) ==
    Then(CmpU64(a.bytes0_through7, b.bytes0_through7),
    Then(CmpU64(a.bytes8_through15, b.bytes8_through15),
    Then(CmpU64(a.bytes16_through23, b.bytes16_through23),
         CmpU64(a.bytes24_through31, b.bytes24_through31))))

\* Option<Hash256>::cmp (derived): None < Some(_), Some(x) vs Some(y) by Hash256
OptionHashCmp(x, y) ==
    IF IsSome(x) /\ IsSome(y) THEN Hash256Cmp(x[1], y[1])
    ELSE CmpInt(Len(x), Len(y))

(***************************************************************************)
(* grpc::Ballot and its Ord                                                *)
(***************************************************************************)
Timestamps == [seconds : -MaxSeconds..MaxSeconds, nanos : -MaxNanos..MaxNanos]

ZeroWord == [hi |-> 0, lo |-> 0]
\* the value hashes ballots carry: words 0 and 3 vary
BallotHashes == {h \in Hash256s : h.bytes8_through15 = ZeroWord
                                  /\ h.bytes16_through23 = ZeroWord}

Ballots == [timestamp : {None} \cup {Some(t) : t \in Timestamps},
            value_hash : {None} \cup {Some(h) : h \in BallotHashes}]

timestamp_tuple(timestamp) ==
    IF IsSome(timestamp) THEN <<timestamp[1].seconds, timestamp[1].nanos>>
    ELSE <<0, 0>>

\* (i64, i32)::cmp
TupleCmp(s, t) == Then(CmpInt(s[1], t[1]), CmpInt(s[2], t[2]))

\* the tuple with its components swapped: value hash before timestamp
BallotCmpHashFirst(a, b) ==
    Then(OptionHashCmp(a.value_hash, b.value_hash),
         TupleCmp(timestamp_tuple(a.timestamp), timestamp_tuple(b.timestamp)))

BallotCmp(a, b) ==
    Then(TupleCmp(timestamp_tuple(a.timestamp), timestamp_tuple(b.timestamp)),
         OptionHashCmp(a.value_hash, b.value_hash))

\* Ballot's == is prost's derived PartialEq: field by field
BallotEq(a, b) == a.timestamp = b.timestamp /\ a.value_hash = b.value_hash

\* Ord::max(self, other): other unless self compares Greater
BallotMax(a, b) == IF BallotCmp(a, b) = "Greater" THEN a ELSE b

(***************************************************************************)
(* grpc::ConsensusMessage and is_one_a                                     *)
(***************************************************************************)
\* message_oneof: None, Some(Ballot(b)) or Some of another variant
ConsensusMessages ==
    [message_oneof : {None} \cup {Some(<<"Ballot", b>>) : b \in Ballots}
                            \cup {Some(<<"Other">>)}]

\* the pattern without its value_hash : Some(_) part
IsOneATimestampOnly(m) ==
    /\ IsSome(m.message_oneof)
    /\ m.message_oneof[1][1] = "Ballot"
    /\ IsSome(m.message_oneof[1][2].timestamp)

is_one_a(m) ==
    /\ IsSome(m.message_oneof)
    /\ m.message_oneof[1][1] = "Ballot"
    /\ IsSome(m.message_oneof[1][2].timestamp)
    /\ IsSome(m.message_oneof[1][2].value_hash)

(***************************************************************************)
(* crypto.rs: results of calls that may fail                               *)
(***************************************************************************)
\* a library Result, or the outcome of a constructor: a value, or a panic
\* (expect / unwrap on Err or None)
Ok(v) == <<"Ok", v>>
Err == <<"Err">>
Panic == <<"Panic">>
IsOk(r) == r[1] = "Ok"

Last(q) == q[Len(q)]

(***************************************************************************)
(* Keys, PEM text, messages and signature bytes                            *)
(***************************************************************************)
\* the key pairs that exist, each with its curve
KeyCurve == <<"P256", "P256", "P384">>
Keys == DOMAIN KeyCurve

\* A PEM text is a sequence of sections, each a character code:
\*   0       a section that does not decode (bad base64)
\*   1       a CERTIFICATE section whose DER is no X.509 certificate
\*   2       a PRIVATE KEY section whose PKCS8 holds no ECDSA key
\*   10 + k  a CERTIFICATE section: the self-signed certificate of key k
\*   20 + k  a PRIVATE KEY section: the PKCS8 encoding of key k
CertItem(k) == 10 + k
KeyItem(k) == 20 + k
PemItems == {0, 1, 2} \cup {CertItem(k) : k \in Keys} \cup {KeyItem(k) : k \in Keys}
PemStrings == UNION {[1..n -> PemItems] : n \in 0..MaxPemItems}

Bytes == {0, 255}
Messages == UNION {[1..n -> Bytes] : n \in 0..MaxMsgLen}
Nonces == 1..MaxNonce

\* Signature bytes: <<k, m, r>> is the ECDSA signature of key k over message m
\* made with nonce r; <<>> and <<0>> are bytes that are no signature at all.
SignatureBytes ==
    {<<>>, <<0>>} \cup {<<k, m, r>> : k \in Keys, m \in Messages, r \in Nonces}

\* String::cmp: lexicographic by character, a proper prefix is Less
StrCmp(s, t) ==
    LET n == IF Len(s) < Len(t) THEN Len(s) ELSE Len(t)
        diff == {i \in 1..n : s[i] # t[i]}
    IN  IF diff = {} THEN CmpInt(Len(s), Len(t))
        ELSE LET i == CHOOSE x \in diff : \A y \in diff : x <= y
             IN  CmpInt(s[i], t[i])

(***************************************************************************)
(* rustls / rustls_pemfile / rcgen as crypto.rs uses them                  *)
(***************************************************************************)
DEFAULT_SCHEME == "ECDSA_NISTP256_SHA256"

SignatureSchemes == {"ECDSA_NISTP256_SHA256", "ECDSA_NISTP384_SHA384",
                     "ED25519", "RSA_PKCS1_SHA256"}

\* the scheme an ECDSA key of a curve signs with
CurveScheme(curve) ==
    IF curve = "P256" THEN "ECDSA_NISTP256_SHA256" ELSE "ECDSA_NISTP384_SHA384"

\* rustls_pemfile::certs: every CERTIFICATE section in order, Err when a
\* section does not decode
PemCerts(pem) ==
    IF \E i \in 1..Len(pem) : pem[i] = 0 THEN Err
    ELSE Ok(SelectSeq(pem, LAMBDA c : c = 1 \/ c \in {CertItem(k) : k \in Keys}))

\* rustls_pemfile::pkcs8_private_keys: every PRIVATE KEY section in order
PemPkcs8PrivateKeys(pem) ==
    IF \E i \in 1..Len(pem) : pem[i] = 0 THEN Err
    ELSE Ok(SelectSeq(pem, LAMBDA c : c = 2 \/ c \in {KeyItem(k) : k \in Keys}))

\* whether webpki parses the DER as a certificate, and the key it certifies
IsX509(cert) == cert \in {CertItem(k) : k \in Keys}
CertKey(cert) == cert - 10

\* AllowAnyAuthenticatedClient::supported_verify_schemes: the verifier's list
\* of schemes, the same for every root store
VerificationSchemes == <<"ECDSA_NISTP384_SHA384", "ECDSA_NISTP256_SHA256",
                         "ED25519", "RSA_PKCS1_SHA256">>

\* any_ecdsa_type: the signing key of a PKCS8 ECDSA key, Err for any other DER
AnyEcdsaType(der) ==
    IF der \in {KeyItem(k) : k \in Keys}
    THEN Ok([key |-> der - 20, scheme |-> CurveScheme(KeyCurve[der - 20])])
    ELSE Err

\* SigningKey::choose_scheme: a signer when the key's scheme is offered
ChooseScheme(signing_key, schemes) ==
    IF \E i \in 1..Len(schemes) : schemes[i] = signing_key.scheme
    THEN Some(signing_key) ELSE None

\* ClientCertVerifier::verify_tls13_signature: Ok when the scheme is a TLS 1.3
\* scheme, the certificate parses, the scheme fits the certificate's key and
\* the bytes are a signature of that key over exactly the message
VerifyTls13Signature(message, cert, scheme, signature) ==
    IF scheme \notin {"ECDSA_NISTP256_SHA256", "ECDSA_NISTP384_SHA384", "ED25519"}
        THEN Err
    ELSE IF ~IsX509(cert) THEN Err
    ELSE IF scheme # CurveScheme(KeyCurve[CertKey(cert)]) THEN Err
    ELSE IF Len(signature) = 3 /\ signature[1] = CertKey(cert)
            /\ signature[2] = message
        THEN Ok(TRUE)
    ELSE Err

(***************************************************************************)
(* crypto.rs                                                               *)
(***************************************************************************)
\* certificate(): the last certificate of the text
certificate(public_key_string) ==
    LET parsed == PemCerts(public_key_string)
    IN  IF ~IsOk(parsed) THEN Panic
        ELSE IF parsed[2] = <<>> THEN Panic
        ELSE Ok(Last(parsed[2]))

\* root_cert_store(): RootCertStore::add(...).unwrap()
root_cert_store(cert) == IF IsX509(cert) THEN Ok({cert}) ELSE Panic

supported_verify_schemes(cert) ==
    IF IsOk(root_cert_store(cert)) THEN Ok(VerificationSchemes) ELSE Panic

\* what a call of verify_bytes produces: a bool, or a panic
Returned(b) == [called |-> TRUE, panic |-> FALSE, value |-> b]
Panicked == [called |-> TRUE, panic |-> TRUE, value |-> FALSE]
NotCalled == [called |-> FALSE, panic |-> FALSE, value |-> FALSE]

\* the closure with unwrap() for is_ok()
VerifyClosureUnwrap(s, message, signature) ==
    LET r == VerifyTls13Signature(message, s.certificate, s.scheme, signature)
    IN  IF IsOk(r) THEN Returned(TRUE) ELSE Panicked

\* the closure with is_err() for is_ok()
VerifyClosureIsErr(s, message, signature) ==
    Returned(~IsOk(VerifyTls13Signature(message, s.certificate, s.scheme, signature)))

\* the closure new_create_closure stores: verify_tls13_signature(...).is_ok()
verify_closure(s, message, signature) ==
    Returned(IsOk(VerifyTls13Signature(message, s.certificate, s.scheme, signature)))

\* addr is the allocation Arc::new returns for the closure
new_create_closure(pem_string, scheme, cert, addr) ==
    LET a == root_cert_store(cert)
    IN  IF ~IsOk(a) THEN Panic
        ELSE Ok([string |-> pem_string,
                 certificate |-> cert,
                 scheme |-> scheme,
                 verify_closure |-> [arc |-> addr, roots |-> a[2]]])

PublicKeyNew(pem_string, scheme, addr) ==
    LET c == certificate(pem_string)
    IN  IF ~IsOk(c) THEN Panic
        ELSE new_create_closure(pem_string, scheme, c[2], addr)

PublicKeyNewDefaultScheme(pem_string, addr) ==
    LET c == certificate(pem_string)
    IN  IF ~IsOk(c) THEN Panic
        ELSE LET schemes == supported_verify_schemes(c[2])
             IN  IF ~IsOk(schemes) THEN Panic
                 ELSE IF \E i \in 1..Len(schemes[2]) : schemes[2][i] = DEFAULT_SCHEME
                     THEN new_create_closure(pem_string, DEFAULT_SCHEME, c[2], addr)
                 ELSE IF schemes[2] = <<>> THEN Panic
                 ELSE new_create_closure(pem_string, Last(schemes[2]), c[2], addr)

verify_bytes(self, message, signature) == verify_closure(self, message, signature)

PublicKeyDisplay(self) == self.string

\* equality over every field, as a derived PartialEq would compare
PublicKeyEqAllFields(a, b) == a = b

PublicKeyEq(a, b) == a.string = b.string

PublicKeyCmp(a, b) == StrCmp(a.string, b.string)

\* Hash: what string.hash feeds the hasher (the bytes, then 0xff)
PublicKeyHash(a) == Append(a.string, 255)

PrivateKeyNew(pem_string, schemes) ==
    LET keys == PemPkcs8PrivateKeys(pem_string)
    IN  IF ~IsOk(keys) THEN Panic
        ELSE IF keys[2] = <<>> THEN Panic
        ELSE LET signing_key == AnyEcdsaType(Last(keys[2]))
             IN  IF ~IsOk(signing_key) THEN Panic
                 ELSE LET signer == ChooseScheme(signing_key[2], schemes)
                      IN  IF ~IsSome(signer) THEN Panic
                          ELSE Ok([string |-> pem_string, signer |-> signer[1]])

PrivateKeyNewSpecificScheme(pem_string, scheme) ==
    PrivateKeyNew(pem_string, <<scheme>>)

PrivateKeyScheme(self) == self.signer.scheme

\* sign_bytes: Signer::sign, which draws a nonce
sign_bytes(self, message, nonce) == <<self.signer.key, message, nonce>>

\* keys_from_strings with the private key free to choose any supported scheme
KeysFromStringsAnyScheme(public_key_string, private_key_string, addr) ==
    LET public_key == PublicKeyNewDefaultScheme(public_key_string, addr)
    IN  IF ~IsOk(public_key) THEN Panic
        ELSE LET private_key == PrivateKeyNew(private_key_string, VerificationSchemes)
             IN  IF ~IsOk(private_key) THEN Panic
                 ELSE Ok(<<public_key[2], private_key[2]>>)

keys_from_strings(public_key_string, private_key_string, addr) ==
    LET public_key == PublicKeyNewDefaultScheme(public_key_string, addr)
    IN  IF ~IsOk(public_key) THEN Panic
        ELSE LET private_key ==
                     PrivateKeyNewSpecificScheme(private_key_string,
                                                 public_key[2].scheme)
             IN  IF ~IsOk(private_key) THEN Panic
                 ELSE Ok(<<public_key[2], private_key[2]>>)

\* new_key_pair: rcgen::generate_simple_self_signed makes a fresh P-256 key k;
\* serialize_pem is its certificate, serialize_private_key_pem its PKCS8 key
GeneratedKeys == {k \in Keys : KeyCurve[k] = "P256"}
new_key_pair(k, addr) == keys_from_strings(<<CertItem(k)>>, <<KeyItem(k)>>, addr)

(***************************************************************************)
(* Actions on identities                                                   *)
(***************************************************************************)
MaxIdle == /\ ballots = {}
           /\ todo = <<{}, {}>>
           /\ best = <<None, None>>

CryptoIdle == /\ status = "idle"
              /\ pub = <<None, None>>
              /\ priv = None
              /\ sig = None
              /\ verdict = None
              /\ compared = None

OrderIdle == /\ op = "idle"
             /\ args = <<>>
             /\ ret = <<>>

\* a provisioning call returns a pair into slot 1, or aborts the process
Provision(r) ==
    /\ status = "idle"
    /\ IF IsOk(r)
       THEN /\ status' = "ok"
            /\ pub' = <<Some(r[2][1]), None>>
            /\ priv' = Some(r[2][2])
       ELSE /\ status' = "panicked"
            /\ UNCHANGED <<pub, priv>>
    /\ UNCHANGED <<sig, verdict, compared, ordVars, maxVars>>

NewKeyPair(k) == Provision(new_key_pair(k, 1))

KeysFromStrings(public_key_string, private_key_string) ==
    Provision(keys_from_strings(public_key_string, private_key_string, 1))

\* a Public Identity constructed into a slot: slot 1 first, then slot 2
CanConstruct(slot) ==
    IF slot = 1 THEN status = "idle"
    ELSE /\ status = "ok"
         /\ IsSome(pub[1]) /\ ~IsSome(pub[2])
         /\ verdict = None /\ compared = None

Construct(slot, r) ==
    /\ CanConstruct(slot)
    /\ IF IsOk(r)
       THEN /\ status' = "ok"
            /\ pub' = [pub EXCEPT ![slot] = Some(r[2])]
       ELSE /\ status' = "panicked"
            /\ UNCHANGED pub
    /\ UNCHANGED <<priv, sig, verdict, compared, ordVars, maxVars>>

PublicNew(slot, pem_string, scheme) ==
    /\ sig = None
    /\ Construct(slot, PublicKeyNew(pem_string, scheme, slot))

PublicNewDefault(slot, pem_string) ==
    /\ sig = None
    /\ Construct(slot, PublicKeyNewDefaultScheme(pem_string, slot))

\* slot 2 := PublicKey::new_default_scheme(format!("{}", slot 1))
Reconstruct ==
    /\ IsSome(pub[1])
    /\ Construct(2, PublicKeyNewDefaultScheme(PublicKeyDisplay(pub[1][1]), 2))

SignBytes(message, nonce) ==
    /\ status = "ok"
    /\ IsSome(priv)
    /\ sig = None
    /\ sig' = Some(sign_bytes(priv[1], message, nonce))
    /\ UNCHANGED <<status, pub, priv, verdict, compared, ordVars, maxVars>>

\* signature bytes that arrive from elsewhere
Receive(signature) ==
    /\ status = "ok"
    /\ IsSome(pub[1])
    /\ sig = None
    /\ compared = None
    /\ sig' = Some(signature)
    /\ UNCHANGED <<status, pub, priv, verdict, compared, ordVars, maxVars>>

\* verify_bytes(message, sig) on every constructed slot
VerifyBytes(message) ==
    /\ status = "ok"
    /\ IsSome(pub[1])
    /\ IsSome(sig)
    /\ verdict = None
    /\ verdict' = Some([message |-> message,
                        signature |-> sig[1],
                        ret |-> [i \in 1..2 |->
                                   IF IsSome(pub[i])
                                   THEN verify_bytes(pub[i][1], message, sig[1])
                                   ELSE NotCalled]])
    /\ UNCHANGED <<status, pub, priv, sig, compared, ordVars, maxVars>>

\* slot 1 == slot 2, slot 1 .cmp(slot 2), and the two hashes
ComparePublic ==
    /\ status = "ok"
    /\ IsSome(pub[1]) /\ IsSome(pub[2])
    /\ sig = None
    /\ compared = None
    /\ compared' = Some([eq |-> PublicKeyEq(pub[1][1], pub[2][1]),
                         cmp |-> PublicKeyCmp(pub[1][1], pub[2][1]),
                         hash |-> <<PublicKeyHash(pub[1][1]),
                                    PublicKeyHash(pub[2][1])>>])
    /\ UNCHANGED <<status, pub, priv, sig, verdict, ordVars, maxVars>>

InitCrypto == OrderIdle /\ MaxIdle /\ CryptoIdle

\* SpecGen: a generated identity signs or receives signature bytes, is
\* reconstructed from its displayed text, and verifies
NextGen ==
    \/ status = "idle" /\ \E k \in GeneratedKeys : NewKeyPair(k)
    \/ Reconstruct
    \/ sig = None /\ \E m \in Messages, r \in Nonces : SignBytes(m, r)
    \/ sig = None /\ \E b \in SignatureBytes : Receive(b)
    \/ verdict = None /\ \E m \in Messages : VerifyBytes(m)

SpecGen == InitCrypto /\ [][NextGen]_vars

\* SpecLoad: an identity is loaded from two stored PEM texts
NextLoad ==
    status = "idle" /\ \E s1, s2 \in PemStrings : KeysFromStrings(s1, s2)

SpecLoad == InitCrypto /\ [][NextLoad]_vars

\* SpecLoadSign: a loaded identity signs and verifies its own signature
NextLoadSign ==
    \/ status = "idle" /\ \E s1, s2 \in PemStrings : KeysFromStrings(s1, s2)
    \/ sig = None /\ \E m \in Messages, r \in Nonces : SignBytes(m, r)
    \/ verdict = None /\ \E m \in Messages : VerifyBytes(m)

SpecLoadSign == InitCrypto /\ [][NextLoadSign]_vars

\* SpecVerify: a constructed Public Identity verifies arbitrary bytes
NextVerify ==
    \/ status = "idle"
       /\ \E s \in PemStrings, scheme \in SignatureSchemes : PublicNew(1, s, scheme)
    \/ status = "idle" /\ \E s \in PemStrings : PublicNewDefault(1, s)
    \/ sig = None /\ \E b \in SignatureBytes : Receive(b)
    \/ verdict = None /\ \E m \in Messages : VerifyBytes(m)

SpecVerify == InitCrypto /\ [][NextVerify]_vars

\* SpecIdent: two Public Identities are constructed and compared
ComparedSchemes == {"ECDSA_NISTP256_SHA256", "ECDSA_NISTP384_SHA384"}

NextIdent ==
    \/ \E i \in 1..2 :
           /\ CanConstruct(i)
           /\ \E s \in PemStrings, scheme \in ComparedSchemes : PublicNew(i, s, scheme)
    \/ \E i \in 1..2 :
           /\ CanConstruct(i)
           /\ \E s \in PemStrings : PublicNewDefault(i, s)
    \/ ComparePublic

SpecIdent == InitCrypto /\ [][NextIdent]_vars

\* SpecIdentVerify: two Public Identities verify the same bytes
NextIdentVerify ==
    \/ \E i \in 1..2 :
           /\ CanConstruct(i)
           /\ \E s \in PemStrings, scheme \in ComparedSchemes : PublicNew(i, s, scheme)
    \/ \E i \in 1..2 :
           /\ CanConstruct(i)
           /\ \E s \in PemStrings : PublicNewDefault(i, s)
    \/ sig = None /\ \E b \in SignatureBytes : Receive(b)
    \/ verdict = None /\ \E m \in Messages : VerifyBytes(m)

SpecIdentVerify == InitCrypto /\ [][NextIdentVerify]_vars

(***************************************************************************)
(* SpecOrder: calls of Hash256::cmp, Ballot::cmp and is_one_a              *)
(***************************************************************************)
InitOrder == /\ OrderIdle
             /\ MaxIdle
             /\ CryptoIdle

\* Each behaviour is one call from the idle state.
\* Three fingerprints are compared pairwise.
CompareHashes(a, b, c) ==
    /\ op = "idle"
    /\ op' = "Hash256::cmp"
    /\ args' = <<a, b, c>>
    /\ ret' = [aa |-> Hash256Cmp(a, a), ab |-> Hash256Cmp(a, b),
               ba |-> Hash256Cmp(b, a), bc |-> Hash256Cmp(b, c),
               ac |-> Hash256Cmp(a, c)]
    /\ UNCHANGED <<maxVars, cryptoVars>>

CompareBallots(a, b) ==
    /\ op = "idle"
    /\ op' = "Ballot::cmp"
    /\ args' = <<a, b>>
    /\ ret' = BallotCmp(a, b)
    /\ UNCHANGED <<maxVars, cryptoVars>>

ClassifyMessage(m) ==
    /\ op = "idle"
    /\ op' = "is_one_a"
    /\ args' = <<m>>
    /\ ret' = is_one_a(m)
    /\ UNCHANGED <<maxVars, cryptoVars>>

NextOrder ==
    \/ op = "idle" /\ \E a, b, c \in Hash256s : CompareHashes(a, b, c)
    \/ op = "idle" /\ \E a, b \in Ballots : CompareBallots(a, b)
    \/ op = "idle" /\ \E m \in ConsensusMessages : ClassifyMessage(m)

SpecOrder == InitOrder /\ [][NextOrder]_vars

(***************************************************************************)
(* SpecMax: two participants fold the same ballot set with max, each in    *)
(* an order of its own (Iterator::max / Ord::max keep the later of two     *)
(* ballots that compare Equal)                                             *)
(***************************************************************************)
BallotSets == {{f[i] : i \in 1..MaxBallots} : f \in [1..MaxBallots -> Ballots]}

InitMax == /\ OrderIdle
           /\ ballots \in BallotSets
           /\ todo = <<ballots, ballots>>
           /\ best = <<None, None>>
           /\ CryptoIdle

Examine(p, b) ==
    /\ b \in todo[p]
    /\ todo' = [todo EXCEPT ![p] = @ \ {b}]
    /\ best' = [best EXCEPT ![p] = IF IsSome(@) THEN Some(BallotMax(@[1], b))
                                               ELSE Some(b)]
    /\ UNCHANGED <<ballots, ordVars, cryptoVars>>

NextMax == \E p \in 1..2 : \E b \in Ballots : Examine(p, b)

SpecMax == InitMax /\ [][NextMax]_vars

(***************************************************************************)
(* Properties of the orderings                                             *)
(***************************************************************************)
FoldsDone == ballots # {} /\ todo[1] = {} /\ todo[2] = {}

\* C1: the highest ballot of a set is one ballot whatever the order of
\* examination: two participants that have folded the same non-empty set with
\* max hold ballots that are equal field by field.
C1_SingleMaximum ==
    FoldsDone => BallotEq(best[1][1], best[2][1])

\* the numeric order of two u64 words
U64Less(x, y) == x.hi < y.hi \/ (x.hi = y.hi /\ x.lo < y.lo)

HashWords(h) == <<h.bytes0_through7, h.bytes8_through15,
                  h.bytes16_through23, h.bytes24_through31>>

\* lexicographic order of the four words, word 0 most significant
HashLexLess(a, b) ==
    \E i \in 1..4 : /\ \A j \in 1..(i - 1) : HashWords(a)[j] = HashWords(b)[j]
                    /\ U64Less(HashWords(a)[i], HashWords(b)[i])

OneOf3(p, q, r) == (p /\ ~q /\ ~r) \/ (~p /\ q /\ ~r) \/ (~p /\ ~q /\ r)

EffectiveTimestamp(b) ==
    IF b.timestamp = None THEN [seconds |-> 0, nanos |-> 0] ELSE b.timestamp[1]

TimestampLess(s, t) ==
    s.seconds < t.seconds \/ (s.seconds = t.seconds /\ s.nanos < t.nanos)

FingerprintCmp(a, b) == OptionHashCmp(a.value_hash, b.value_hash)

\* C2: Ballot::cmp is the lexicographic comparison of (effective timestamp,
\* fingerprint), a missing timestamp counting as (0, 0); so equal effective
\* timestamps fall through to the fingerprints, a ballot without timestamp is
\* below one with timestamp (0, 1) whatever the fingerprints, and two ballots
\* without timestamp are ordered by fingerprint alone.
C2_BallotCmpLexicographic ==
    op = "Ballot::cmp" =>
        LET a == args[1]
            b == args[2]
            ta == EffectiveTimestamp(a)
            tb == EffectiveTimestamp(b)
        IN  /\ ret = (IF TimestampLess(ta, tb) THEN "Less"
                      ELSE IF TimestampLess(tb, ta) THEN "Greater"
                      ELSE FingerprintCmp(a, b))
            /\ ta = tb => ret = FingerprintCmp(a, b)
            /\ (a.timestamp = None
                /\ b.timestamp = Some([seconds |-> 0, nanos |-> 1])) => ret = "Less"
            /\ (a.timestamp = None /\ b.timestamp = None)
                   => ret = FingerprintCmp(a, b)

\* a ballot without timestamp and with the greater fingerprint is below a
\* ballot stamped (0, 1)
W2_MissingBelowZeroOne ==
    /\ op = "Ballot::cmp"
    /\ args[1].timestamp = None
    /\ args[2].timestamp = Some([seconds |-> 0, nanos |-> 1])
    /\ FingerprintCmp(args[1], args[2]) = "Greater"
    /\ ret = "Less"

\* C9: is_one_a is true exactly for a message whose oneof is a Ballot with
\* both timestamp and value hash present, and false for no oneof, another
\* variant, or a Ballot missing either field.
C9_IsOneA ==
    op = "is_one_a" =>
        LET m == args[1]
        IN  /\ ret \in BOOLEAN
            /\ ret <=> \E b \in Ballots : /\ m.message_oneof = Some(<<"Ballot", b>>)
                                          /\ b.timestamp # None
                                          /\ b.value_hash # None
            /\ m.message_oneof = None => ret = FALSE
            /\ m.message_oneof = Some(<<"Other">>) => ret = FALSE

\* a Ballot message with both fields is classified as a one_a
W9_OneA ==
    /\ op = "is_one_a"
    /\ ret = TRUE
    /\ args[1].message_oneof[1][1] = "Ballot"

(***************************************************************************)
(* Properties of identities                                                *)
(***************************************************************************)
\* the signature at hand in the last verify_bytes call is one the private
\* key in hand makes over the verified message
VerifiedOwnSignature ==
    /\ IsSome(verdict)
    /\ IsSome(priv)
    /\ \E r \in Nonces :
           verdict[1].signature = sign_bytes(priv[1], verdict[1].message, r)

\* C4: for a generated pair (pub, priv), verify(pub, m, sign(priv, m)) is
\* true, and it is true as well for a Public Identity reconstructed with
\* new_default_scheme from the text pub displays.
C4_GeneratedRoundTrip ==
    /\ status # "panicked"
    /\ VerifiedOwnSignature =>
           /\ verdict[1].ret[1] = Returned(TRUE)
           /\ IsSome(pub[2]) => verdict[1].ret[2] = Returned(TRUE)

\* a signature of the generated private key verified by the reconstruction
W4_ReconstructedVerifies ==
    /\ VerifiedOwnSignature
    /\ verdict[1].message # <<>>
    /\ IsSome(pub[2])
    /\ pub[2][1].verify_closure # pub[1][1].verify_closure
    /\ verdict[1].ret[2] = Returned(TRUE)

\* C5: verify_bytes on a constructed Public Identity always returns a bool
\* and never panics; it returns true only for a signature of the
\* certificate's key over exactly the verified bytes, and false for empty
\* or malformed bytes, a signature over another message, and a signature of
\* another key.
C5_VerifyTotal ==
    IsSome(verdict) =>
        LET v == verdict[1]
            r == v.ret[1]
            key == CertKey(pub[1][1].certificate)
            wellFormed == Len(v.signature) = 3
        IN  /\ r.called /\ ~r.panic /\ r.value \in BOOLEAN
            /\ r.value => (wellFormed /\ v.signature[1] = key
                           /\ v.signature[2] = v.message)
            /\ ~wellFormed => ~r.value
            /\ (wellFormed /\ v.signature[2] # v.message) => ~r.value
            /\ (wellFormed /\ v.signature[1] # key) => ~r.value

\* a signature another key made over the verified bytes is reported false
W5_ForeignSignatureFalse ==
    /\ IsSome(verdict)
    /\ Len(verdict[1].signature) = 3
    /\ verdict[1].signature[1] # CertKey(pub[1][1].certificate)
    /\ verdict[1].signature[2] = verdict[1].message
    /\ verdict[1].ret[1] = Returned(FALSE)

\* C6: keys_from_strings either fails fatally or returns a pair whose
\* private scheme is the scheme the public half selected.
C6_SchemesAgree ==
    /\ status \in {"idle", "ok", "panicked"}
    /\ status = "panicked" => (pub[1] = None /\ priv = None)
    /\ status = "ok" => /\ IsSome(pub[1])
                        /\ IsSome(priv)
                        /\ PrivateKeyScheme(priv[1]) = pub[1][1].scheme

\* a pair loaded from texts of two sections each
W6_PairLoaded ==
    /\ status = "ok"
    /\ Len(pub[1][1].string) = 2
    /\ Len(priv[1].string) = 2
    /\ PrivateKeyScheme(priv[1]) = DEFAULT_SCHEME

\* C7: every pair keys_from_strings returns is matched: the public half
\* verifies every signature the private half makes.
C7_LoadedPairMatched ==
    (status = "ok" /\ VerifiedOwnSignature) => verdict[1].ret[1].value = TRUE

\* s is before t in the lexicographic order of character sequences
StrLexLess(s, t) ==
    \E i \in 1..Len(t) :
        /\ Len(s) >= i - 1
        /\ \A j \in 1..(i - 1) : s[j] = t[j]
        /\ (Len(s) = i - 1 \/ s[i] < t[i])

\* C8: ==, cmp and hash of Public Identities depend on the PEM text alone:
\* a == b iff the texts are equal, cmp is the comparison of the texts, and
\* equal texts hash alike, whatever the certificate, scheme and verifier.
C8_IdentityByPemText ==
    IsSome(compared) =>
        LET a == pub[1][1]
            b == pub[2][1]
            c == compared[1]
        IN  /\ c.eq <=> (a.string = b.string)
            /\ (c.cmp = "Less") <=> StrLexLess(a.string, b.string)
            /\ (c.cmp = "Greater") <=> StrLexLess(b.string, a.string)
            /\ (c.cmp = "Equal") <=> (a.string = b.string)
            /\ (a.string = b.string) => c.hash[1] = c.hash[2]

\* two identities of one text that differ in scheme and verifier are equal
W8_SameTextDifferentScheme ==
    /\ IsSome(compared)
    /\ pub[1][1].string = pub[2][1].string
    /\ pub[1][1].scheme # pub[2][1].scheme
    /\ pub[1][1].verify_closure # pub[2][1].verify_closure
    /\ compared[1].eq
    /\ compared[1].cmp = "Equal"

\* C10: Public Identities that compare equal verify identically.
C10_EqualVerifyAlike ==
    (IsSome(verdict) /\ IsSome(pub[2]) /\ PublicKeyEq(pub[1][1], pub[2][1]))
        => verdict[1].ret[1] = verdict[1].ret[2]

====
